---- MODULE Spec2Model ----
(***************************************************************************)
(* Model of corewlan-wifi-scanner.py: the WiFiScanner object (its          *)
(* authorization latch _has_auth, the LocationAuthDelegate callback) and   *)
(* the retrying scan loop of scan_networks, against an external radio      *)
(* (CWInterface.scanForNetworksWithSSID_error_) and an external permission *)
(* subsystem (CLLocationManager).                                          *)
(***************************************************************************)
EXTENDS Integers, Sequences, FiniteSets, TLC

(* ------------------------------ bounds --------------------------------- *)
\* longest raw scan result the radio hands back
MaxNets == 2
\* retry-loop attempts explored per scan_networks call
MaxAttempts == 2
\* longest list of saved profiles the configuration hands back
MaxProfiles == 2
\* calls of _get_security_string kept side by side
MaxLabels == 2

(* --------------------- CoreLocation status constants ------------------- *)
kCLAuthorizationStatusNotDetermined == "NotDetermined"
kCLAuthorizationStatusRestricted == "Restricted"
kCLAuthorizationStatusDenied == "Denied"
kCLAuthorizationStatusAuthorizedWhenInUse == "AuthorizedWhenInUse"
kCLAuthorizationStatusAuthorizedAlways == "AuthorizedAlways"

AuthStatuses ==
    { kCLAuthorizationStatusNotDetermined,
      kCLAuthorizationStatusRestricted,
      kCLAuthorizationStatusDenied,
      kCLAuthorizationStatusAuthorizedWhenInUse,
      kCLAuthorizationStatusAuthorizedAlways }

Authorized ==
    { kCLAuthorizationStatusAuthorizedWhenInUse,
      kCLAuthorizationStatusAuthorizedAlways }

Refused ==
    { kCLAuthorizationStatusDenied, kCLAuthorizationStatusRestricted }

(* ------------------------- the radio collaborator ---------------------- *)
\* the accessors scan_networks calls on one CWNetwork, in the order it calls them
Accessors == <<"ssid", "bssid", "rssi", "channel", "ibss", "noise", "countryCode">>

\* a raw scan entry: the values its accessors return, and the accessor that
\* raises when called ("none": every accessor returns)
Network(s, b, f) ==
    [ ssid |-> s, bssid |-> b, rssi |-> -45, channel |-> 6, ibss |-> FALSE,
      noise |-> -90, countryCode |-> "US", fails |-> f ]

\* well-formed entries: two SSIDs behind one BSSID
GoodNetworks ==
    { Network("CafeWiFi", "aa:01", "none"),
      Network("Home", "aa:01", "none") }

\* the accessors the radio's malformed entries raise in: the first and the
\* last that scan_networks calls
FailingAccessors == { Accessors[1], Accessors[Len(Accessors)] }

\* malformed entries: one per failing accessor
BadNetworks == { Network("Broken", "aa:03", f) : f \in FailingAccessors }

RawNetworks == GoodNetworks \cup BadNetworks

RECURSIVE SeqsUpTo(_, _)
SeqsUpTo(S, n) ==
    IF n = 0 THEN { <<>> }
    ELSE LET shorter == SeqsUpTo(S, n - 1)
         IN  shorter \cup { Append(q, x) : q \in { r \in shorter : Len(r) = n - 1 }, x \in S }

\* the (domain, code) pairs the radio reports
ScanErrors ==
    { [domain |-> "NSPOSIXErrorDomain", code |-> 16],
      [domain |-> "NSPOSIXErrorDomain", code |-> 1],
      [domain |-> "com.apple.coreWLAN.error", code |-> 16] }

\* what one call of scanForNetworksWithSSID_error_ can do: raise, report an
\* error, or hand back a (possibly empty) list of raw entries without error
RadioOutcomes ==
    { [kind |-> "raise"] }
    \cup { [kind |-> "error", error |-> e] : e \in ScanErrors }
    \cup { [kind |-> "ok", networks |-> n] : n \in SeqsUpTo(RawNetworks, MaxNets) }

\* a probe scan only looks at whether an error came back, never at the entries
ProbeOutcomes == { "ok", "error", "raise" }

\* the probe outcomes to draw from: none when the gate is latched, since
\* check_location_auth then returns before it reaches the radio
ProbesFor(h) == IF h THEN { "none" } ELSE ProbeOutcomes

\* the argument lists scan_networks is called with: the defaults, an empty
\* SSID, and an SSID with a delay of its own
ScanArgs ==
    { [ssid |-> "None", retry_delay |-> 2],
      [ssid |-> "", retry_delay |-> 2],
      [ssid |-> "CafeWiFi", retry_delay |-> 1] }

\* a saved profile: the values its accessors return, and the accessor that
\* raises when called ("none": every accessor returns)
Profile(s, m, f) ==
    [ ssid |-> s, security |-> m, autoJoin |-> TRUE, lastConnected |-> "never",
      fails |-> f ]

\* well-formed profiles, one with a security mode outside the table, and
\* malformed ones failing in the first and in the last accessor called
RawProfiles ==
    { Profile("Home", 4, "none"),
      Profile("CafeWiFi", 13, "none"),
      Profile("Broken", 0, "ssid"),
      Profile("Broken", 0, "lastConnected") }

\* what interface.configuration() and config.preferredNetworks() can do:
\* raise, hand back no configuration, no collection, or a (possibly empty)
\* collection of profiles
ConfigOutcomes ==
    { [kind |-> "raise"], [kind |-> "no_config"], [kind |-> "no_preferred"] }
    \cup { [kind |-> "ok", preferred |-> n] : n \in SeqsUpTo(RawProfiles, MaxProfiles) }

\* the security modes _get_security_string is asked about
SecurityModes == -2 .. 15

(* ------------------------------ state ---------------------------------- *)
VARIABLES
    interface,    \* TRUE iff CWInterface.interface() hands back an interface
    osStatus,     \* what CLLocationManager.authorizationStatus() reads now
    pc,           \* "new", "failed", "ready", "attempt", "sleep", "returned",
                  \* "preferred"; "label" when _get_security_string runs alone
    has_auth,     \* WiFiScanner._has_auth
    auth_event,   \* LocationAuthDelegate.auth_event
    requests,     \* calls of requestWhenInUseAuthorization so far
    initProbe,    \* outcome of the constructor's probe scan ("none": not scanned)
    lastCheck,    \* the latest check_location_auth call: who made it, the OS
                  \* status and _has_auth on entry, what its probe scan did
                  \* ("none": the radio was not called), the SSID filter of
                  \* each radio scan it made, its return value
    ssid_data,    \* scan_networks: the filter handed to the radio
    retry_delay,  \* scan_networks: its retry_delay argument
    attempt,      \* scan_networks: the attempt counter
    hist,         \* outcome of every retry-loop scan of this call, in order
    networks,     \* raw entries of the latest error-free retry-loop scan
    sleepLog,     \* duration of every time.sleep of this call, in order
    ret,          \* what scan_networks returned
    preferred,    \* the latest get_preferred_networks call: what the
                  \* configuration handed back and what the call returned
    labelLog      \* the latest calls of _get_security_string made on their
                  \* own: mode asked, label returned

vars == << interface, osStatus, pc, has_auth, auth_event, requests, initProbe,
           lastCheck, ssid_data, retry_delay, attempt, hist, networks,
           sleepLog, ret, preferred, labelLog >>

callVars == << ssid_data, retry_delay, attempt, hist, networks, sleepLog, ret >>

NoCheck == [ by |-> "none", os |-> "none", latched |-> FALSE, probe |-> "none",
             scans |-> << >>, result |-> FALSE ]

NoPreferred == [ called |-> FALSE, input |-> [kind |-> "none"], ret |-> << >> ]

\* the per-call variables before any scan_networks call
ResetCall ==
    /\ ssid_data' = "None"
    /\ retry_delay' = 0
    /\ attempt' = 0
    /\ hist' = << >>
    /\ networks' = << >>
    /\ sleepLog' = << >>
    /\ ret' = << >>

Init ==
    /\ interface \in BOOLEAN
    /\ osStatus \in AuthStatuses
    /\ pc = "new"
    /\ has_auth = FALSE
    /\ auth_event = FALSE
    /\ requests = 0
    /\ initProbe = "none"
    /\ lastCheck = NoCheck
    /\ ssid_data = "None"
    /\ retry_delay = 0
    /\ attempt = 0
    /\ hist = << >>
    /\ networks = << >>
    /\ sleepLog = << >>
    /\ ret = << >>
    /\ preferred = NoPreferred
    /\ labelLog = << >>

(* --------------------------- WiFiScanner.__init__ ---------------------- *)
InitAuthorization_RequestUnlessAuthorized(auth_status) ==
    IF auth_status \in Authorized
    THEN [ request |-> FALSE, has_auth |-> TRUE ]
    ELSE [ request |-> TRUE, has_auth |-> FALSE ]

\* lines 79-91: what the constructor does with the OS status once its probe
\* scan did not come back clean
InitAuthorization(auth_status) ==
    IF auth_status = kCLAuthorizationStatusNotDetermined
    THEN [ request |-> TRUE, has_auth |-> FALSE ]
    ELSE IF auth_status \in Authorized
    THEN [ request |-> FALSE, has_auth |-> TRUE ]
    ELSE [ request |-> FALSE, has_auth |-> FALSE ]

WiFiScanner_init_NoTry(probe) ==
    /\ pc = "new"
    /\ IF ~interface \/ probe = "raise"
       THEN /\ pc' = "failed"
            /\ initProbe' = IF interface THEN probe ELSE initProbe
            /\ UNCHANGED << has_auth, requests >>
       ELSE /\ pc' = "ready"
            /\ initProbe' = probe
            /\ IF probe = "ok"
               THEN /\ has_auth' = TRUE
                    /\ UNCHANGED requests
               ELSE LET a == InitAuthorization(osStatus)
                    IN  /\ has_auth' = a.has_auth
                        /\ requests' = IF a.request THEN requests + 1 ELSE requests
    /\ UNCHANGED << preferred, labelLog, interface, osStatus, auth_event, lastCheck, callVars >>

\* lines 46-91; probe is what the quick scan of line 71 does
WiFiScanner_init(probe) ==
    /\ pc = "new"
    /\ IF ~interface
       THEN \* raise RuntimeError("No WiFi interface available")
            /\ pc' = "failed"
            /\ UNCHANGED << has_auth, requests, initProbe >>
       ELSE /\ pc' = "ready"
            /\ initProbe' = probe
            /\ IF probe = "ok"
               THEN /\ has_auth' = TRUE
                    /\ UNCHANGED requests
               ELSE LET a == InitAuthorization(osStatus)
                    IN  /\ has_auth' = a.has_auth
                        /\ requests' = IF a.request THEN requests + 1 ELSE requests
    /\ UNCHANGED << preferred, labelLog, interface, osStatus, auth_event, lastCheck, callVars >>

(* ------------- LocationAuthDelegate: the permission callback ----------- *)
locationManager_didChangeAuthorizationStatus_Unlatch(status) ==
    /\ pc \notin { "new", "failed" }
    /\ osStatus' = status
    /\ auth_event' = TRUE
    /\ has_auth' = IF status \in Refused THEN FALSE ELSE has_auth
    /\ UNCHANGED << preferred, labelLog, interface, pc, requests, initProbe, lastCheck, callVars >>

\* lines 33-43: the OS status becomes `status` and the registered delegate is
\* told; the delegate sets auth_event and logs
locationManager_didChangeAuthorizationStatus_(status) ==
    /\ pc \notin { "new", "failed" }
    /\ osStatus' = status
    /\ auth_event' = TRUE
    /\ UNCHANGED << preferred, labelLog, interface, pc, has_auth, requests, initProbe, lastCheck, callVars >>

(* --------------------- WiFiScanner.check_location_auth ----------------- *)
\* lines 93-107 as a function of _has_auth on entry and of what the probe scan
\* of line 100 does; probe |-> "none" in the result: the radio was not called
\* scans in the result: the SSID filter of every radio scan the query made
CheckLocationAuth_NoFalse(h, probe) ==
    IF h
    THEN [ has_auth |-> TRUE, result |-> TRUE, probe |-> "none", scans |-> << >> ]
    ELSE [ has_auth |-> (probe = "ok"), result |-> TRUE, probe |-> probe,
           scans |-> << "None" >> ]

CheckLocationAuth_LatchOnError(h, probe) ==
    IF h
    THEN [ has_auth |-> TRUE, result |-> TRUE, probe |-> "none", scans |-> << >> ]
    ELSE IF probe = "raise"
    THEN [ has_auth |-> h, result |-> FALSE, probe |-> probe, scans |-> << "None" >> ]
    ELSE [ has_auth |-> TRUE, result |-> (probe = "ok"), probe |-> probe,
           scans |-> << "None" >> ]

CheckLocationAuth_AlwaysProbes(h, probe) ==
    IF h \/ probe = "ok"
    THEN [ has_auth |-> TRUE, result |-> TRUE, probe |-> probe, scans |-> << "None" >> ]
    ELSE [ has_auth |-> h, result |-> FALSE, probe |-> probe, scans |-> << "None" >> ]

CheckLocationAuth(h, probe) ==
    IF h
    THEN [ has_auth |-> TRUE, result |-> TRUE, probe |-> "none", scans |-> << >> ]
    ELSE IF probe = "ok"
    THEN [ has_auth |-> TRUE, result |-> TRUE, probe |-> probe, scans |-> << "None" >> ]
    ELSE [ has_auth |-> h, result |-> FALSE, probe |-> probe, scans |-> << "None" >> ]

CheckRecord(who, c) ==
    [ by |-> who, os |-> osStatus, latched |-> has_auth, probe |-> c.probe,
      scans |-> c.scans, result |-> c.result ]

\* a caller asks the gate directly
check_location_auth(probe) ==
    /\ pc \in { "ready", "returned" }
    /\ LET c == CheckLocationAuth(has_auth, probe)
       IN  /\ has_auth' = c.has_auth
           /\ lastCheck' = CheckRecord("check_location_auth", c)
    /\ pc' = "ready"
    /\ ResetCall
    /\ preferred' = NoPreferred
    /\ UNCHANGED << labelLog, interface, osStatus, auth_event, requests, initProbe >>

(* ------------------------ WiFiScanner.scan_networks -------------------- *)
\* lines 163-166: the filter handed to the radio ("None": no filter)
SsidData(ssid) ==
    IF ssid = "None" \/ ssid = "" THEN "None" ELSE ssid

\* lines 195-203: the record built from one raw entry
NetworkInfo(network) ==
    [ ssid |-> network.ssid, bssid |-> network.bssid, rssi |-> network.rssi,
      channel |-> network.channel, is_ibss |-> network.ibss,
      noise |-> network.noise, country_code |-> network.countryCode ]

\* lines 205-207: the handler of a failed entry logs network.ssid(), which
\* raises again when ssid is the accessor that fails
HandlerRaises(network) == network.fails = "ssid"

RECURSIVE ProcessNetworks_Prepend(_, _)
ProcessNetworks_Prepend(raw, results) ==
    IF raw = << >>
    THEN [ raised |-> FALSE, results |-> results ]
    ELSE LET network == Head(raw)
         IN  IF network.fails = "none"
             THEN ProcessNetworks_Prepend(Tail(raw), << NetworkInfo(network) >> \o results)
             ELSE IF HandlerRaises(network)
             THEN [ raised |-> TRUE, results |-> results ]
             ELSE ProcessNetworks_Prepend(Tail(raw), results)

\* lines 192-207: the loop over the raw entries; raised: an exception left
\* the loop (it reaches the handler of line 218)
RECURSIVE ProcessNetworks(_, _)
ProcessNetworks(raw, results) ==
    IF raw = << >>
    THEN [ raised |-> FALSE, results |-> results ]
    ELSE LET network == Head(raw)
         IN  IF network.fails = "none"
             THEN ProcessNetworks(Tail(raw), Append(results, NetworkInfo(network)))
             ELSE IF HandlerRaises(network)
             THEN [ raised |-> TRUE, results |-> results ]
             ELSE ProcessNetworks(Tail(raw), results)

\* lines 180-189: how the loop names a reported error in its log; both
\* branches then sleep, count and go round again
ErrorKind(error) ==
    IF error.domain = "NSPOSIXErrorDomain" /\ error.code = 16 THEN "busy" ELSE "error"

\* how one retry-loop scan went, as recorded in hist
OutcomeKind(o) ==
    IF o.kind = "raise" THEN "raise"
    ELSE IF o.kind = "error" THEN ErrorKind(o.error)
    ELSE IF o.networks = << >> THEN "empty"
    ELSE "nonempty"

AttemptReturns_EvenEmpty(o) ==
    /\ o.kind = "ok"
    /\ ~ProcessNetworks(o.networks, << >>).raised

\* lines 171-222: TRUE iff this attempt ends the call with a return
AttemptReturns(o) ==
    /\ o.kind = "ok"
    /\ LET p == ProcessNetworks(o.networks, << >>)
       IN  ~p.raised /\ p.results # << >>

SleepDuration_Backoff(delay, n) == delay * (2 ^ n)

\* lines 182, 187, 214, 220: the duration handed to time.sleep
SleepDuration(delay, n) == delay

\* lines 158-169: the gate check, then either the early return or the loop
scan_networks(ssid, delay, probe) ==
    /\ pc \in { "ready", "returned" }
    /\ LET c == CheckLocationAuth(has_auth, probe)
       IN  /\ has_auth' = c.has_auth
           /\ lastCheck' = CheckRecord("scan_networks", c)
           /\ IF ~c.result
              THEN /\ pc' = "returned"
                   /\ ResetCall
              ELSE /\ pc' = "attempt"
                   /\ ssid_data' = SsidData(ssid)
                   /\ retry_delay' = delay
                   /\ attempt' = 1
                   /\ hist' = << >>
                   /\ networks' = << >>
                   /\ sleepLog' = << >>
                   /\ ret' = << >>
    /\ preferred' = NoPreferred
    /\ UNCHANGED << labelLog, interface, osStatus, auth_event, requests, initProbe >>

scan_attempt_OtherErrorFatal(o) ==
    /\ pc = "attempt"
    /\ hist' = Append(hist, OutcomeKind(o))
    /\ networks' = IF o.kind = "ok" THEN o.networks ELSE << >>
    /\ IF AttemptReturns(o)
       THEN /\ ret' = ProcessNetworks(o.networks, << >>).results
            /\ pc' = "returned"
       ELSE /\ ret' = << >>
            /\ pc' = IF o.kind = "error" /\ ErrorKind(o.error) # "busy"
                     THEN "returned" ELSE "sleep"
    /\ UNCHANGED << preferred, labelLog, interface, osStatus, has_auth, auth_event, requests,
                    initProbe, lastCheck, ssid_data, retry_delay, attempt, sleepLog >>

scan_attempt_RaisePropagates(o) ==
    /\ pc = "attempt"
    /\ hist' = Append(hist, OutcomeKind(o))
    /\ networks' = IF o.kind = "ok" THEN o.networks ELSE << >>
    /\ IF AttemptReturns(o)
       THEN /\ ret' = ProcessNetworks(o.networks, << >>).results
            /\ pc' = "returned"
       ELSE /\ ret' = << >>
            /\ pc' = IF o.kind = "raise" THEN "returned" ELSE "sleep"
    /\ UNCHANGED << preferred, labelLog, interface, osStatus, has_auth, auth_event, requests,
                    initProbe, lastCheck, ssid_data, retry_delay, attempt, sleepLog >>

\* lines 171-216 up to the sleep: one scan of the radio and what is made of it
scan_attempt(o) ==
    /\ pc = "attempt"
    /\ hist' = Append(hist, OutcomeKind(o))
    /\ networks' = IF o.kind = "ok" THEN o.networks ELSE << >>
    /\ IF AttemptReturns(o)
       THEN /\ ret' = ProcessNetworks(o.networks, << >>).results
            /\ pc' = "returned"
       ELSE /\ ret' = << >>
            /\ pc' = "sleep"
    /\ UNCHANGED << preferred, labelLog, interface, osStatus, has_auth, auth_event, requests,
                    initProbe, lastCheck, ssid_data, retry_delay, attempt, sleepLog >>

scan_sleep_NoSleep ==
    /\ pc = "sleep"
    /\ attempt < MaxAttempts
    /\ attempt' = attempt + 1
    /\ networks' = << >>
    /\ pc' = "attempt"
    /\ UNCHANGED << preferred, labelLog, interface, osStatus, has_auth, auth_event, requests, initProbe,
                    lastCheck, ssid_data, retry_delay, hist, ret, sleepLog >>

scan_sleep_RecheckStatus ==
    /\ pc = "sleep"
    /\ IF osStatus \in Refused
       THEN /\ pc' = "returned"
            /\ ret' = << >>
            /\ UNCHANGED << attempt, networks, sleepLog >>
       ELSE /\ attempt < MaxAttempts
            /\ sleepLog' = Append(sleepLog, SleepDuration(retry_delay, attempt))
            /\ attempt' = attempt + 1
            /\ networks' = << >>
            /\ pc' = "attempt"
            /\ UNCHANGED ret
    /\ UNCHANGED << preferred, labelLog, interface, osStatus, has_auth, auth_event,
                    requests, initProbe, lastCheck, ssid_data, retry_delay, hist >>

\* time.sleep(retry_delay); attempt += 1; continue
scan_sleep ==
    /\ pc = "sleep"
    /\ attempt < MaxAttempts
    /\ sleepLog' = Append(sleepLog, SleepDuration(retry_delay, attempt))
    /\ attempt' = attempt + 1
    /\ networks' = << >>
    /\ pc' = "attempt"
    /\ UNCHANGED << preferred, labelLog, interface, osStatus, has_auth, auth_event, requests,
                    initProbe, lastCheck, ssid_data, retry_delay, hist, ret >>

(* --------------------- WiFiScanner._get_security_string ---------------- *)
\* lines 131-145
security_map ==
    0 :> "None" @@ 1 :> "WEP" @@ 2 :> "WPA Personal" @@ 3 :> "WPA/WPA2 Personal"
    @@ 4 :> "WPA2 Personal" @@ 5 :> "WPA2/WPA3 Personal" @@ 6 :> "WPA3 Personal"
    @@ 7 :> "Dynamic WEP" @@ 8 :> "WPA Enterprise" @@ 9 :> "WPA/WPA2 Enterprise"
    @@ 10 :> "WPA2 Enterprise" @@ 11 :> "WPA2/WPA3 Enterprise"
    @@ 12 :> "WPA3 Enterprise"

GetSecurityString_BareUnknown(security_mode) ==
    IF security_mode \in DOMAIN security_map
    THEN security_map[security_mode]
    ELSE "Unknown"

\* line 146: security_map.get(security_mode, f"Unknown ({security_mode})")
GetSecurityString(security_mode) ==
    IF security_mode \in DOMAIN security_map
    THEN security_map[security_mode]
    ELSE "Unknown (" \o ToString(security_mode) \o ")"

\* _get_security_string called on its own
get_security_string(security_mode) ==
    /\ pc = "label"
    /\ Len(labelLog) < MaxLabels
    /\ labelLog' = Append(labelLog, [ security_mode |-> security_mode,
                                      label |-> GetSecurityString(security_mode) ])
    /\ UNCHANGED << interface, osStatus, pc, has_auth, auth_event, requests,
                    initProbe, lastCheck, callVars, preferred >>

(* -------------------- WiFiScanner.get_preferred_networks --------------- *)
\* lines 241-246: the record built from one saved profile
PreferredInfo(network) ==
    [ ssid |-> network.ssid,
      security_mode |-> GetSecurityString(network.security),
      is_auto_join |-> network.autoJoin,
      last_connected |-> network.lastConnected ]

RECURSIVE BuildPreferred_AbortOnFailure(_, _)
BuildPreferred_AbortOnFailure(raw, acc) ==
    IF raw = << >> THEN acc
    ELSE IF Head(raw).fails = "none"
    THEN BuildPreferred_AbortOnFailure(Tail(raw), Append(acc, PreferredInfo(Head(raw))))
    ELSE << >>

\* lines 239-250: the loop over the saved profiles; a profile whose
\* extraction raises is logged and passed over
RECURSIVE BuildPreferred(_, _)
BuildPreferred(raw, acc) ==
    IF raw = << >> THEN acc
    ELSE IF Head(raw).fails = "none"
    THEN BuildPreferred(Tail(raw), Append(acc, PreferredInfo(Head(raw))))
    ELSE BuildPreferred(Tail(raw), acc)

\* lines 229-256: what get_preferred_networks returns
GetPreferredNetworks(o) ==
    IF o.kind = "raise" THEN << >>
    ELSE IF o.kind = "no_config" THEN << >>
    ELSE IF o.kind = "no_preferred" \/ o.preferred = << >> THEN << >>
    ELSE BuildPreferred(o.preferred, << >>)

\* lines 224-227: the gate query, which only decides on a warning
get_preferred_networks(probe) ==
    /\ pc \in { "ready", "returned" }
    /\ LET c == CheckLocationAuth(has_auth, probe)
       IN  /\ has_auth' = c.has_auth
           /\ lastCheck' = CheckRecord("get_preferred_networks", c)
    /\ pc' = "preferred"
    /\ ResetCall
    /\ preferred' = NoPreferred
    /\ UNCHANGED << labelLog, interface, osStatus, auth_event, requests, initProbe >>

\* lines 229-256: the configuration is read and the list built and returned
preferred_networks_build(o) ==
    /\ pc = "preferred"
    /\ preferred' = [ called |-> TRUE, input |-> o, ret |-> GetPreferredNetworks(o) ]
    /\ pc' = "ready"
    /\ UNCHANGED << labelLog, interface, osStatus, has_auth, auth_event, requests,
                    initProbe, lastCheck, callVars >>

(* --------------------------- the specification ------------------------- *)
Next ==
    \/ \E probe \in ProbeOutcomes : WiFiScanner_init(probe)
    \/ \E status \in AuthStatuses : locationManager_didChangeAuthorizationStatus_(status)
    \/ \E probe \in ProbesFor(has_auth) : check_location_auth(probe)
    \/ \E args \in ScanArgs, probe \in ProbesFor(has_auth) :
          scan_networks(args.ssid, args.retry_delay, probe)
    \/ \E o \in RadioOutcomes : scan_attempt(o)
    \/ scan_sleep
    \/ \E probe \in ProbesFor(has_auth) : get_preferred_networks(probe)
    \/ \E o \in ConfigOutcomes : preferred_networks_build(o)

Spec == Init /\ [][Next]_vars

\* _get_security_string on its own, asked about every mode of SecurityModes
InitLabel ==
    /\ interface = TRUE
    /\ osStatus = kCLAuthorizationStatusNotDetermined
    /\ pc = "label"
    /\ has_auth = FALSE
    /\ auth_event = FALSE
    /\ requests = 0
    /\ initProbe = "none"
    /\ lastCheck = NoCheck
    /\ ssid_data = "None"
    /\ retry_delay = 0
    /\ attempt = 0
    /\ hist = << >>
    /\ networks = << >>
    /\ sleepLog = << >>
    /\ ret = << >>
    /\ preferred = NoPreferred
    /\ labelLog = << >>

NextLabel == \E security_mode \in SecurityModes : get_security_string(security_mode)

SpecLabel == InitLabel /\ [][NextLabel]_vars

(* ------------------------ vocabulary of the claims --------------------- *)
\* a scan_networks call is running or has just returned
InCall == pc \in { "attempt", "sleep", "returned" } /\ lastCheck.by = "scan_networks"

\* ... and its gate check let it into the retry loop
InLoopCall == InCall /\ lastCheck.result

\* radio scans of the current scan_networks call: the gate's probe and the loop's
ProbeScans == IF lastCheck.probe = "none" THEN 0 ELSE 1
CallScans == ProbeScans + Len(hist)

ErrorKinds == { "busy", "error" }

Extracts(network) == network.fails = "none"

AllExtract(raw) == \A i \in 1..Len(raw) : Extracts(raw[i])

\* the entries of a raw result that extract, as records, in the raw order
RecordsOf(raw) ==
    LET good == SelectSeq(raw, Extracts)
    IN  [ i \in 1..Len(good) |->
            [ ssid |-> good[i].ssid, bssid |-> good[i].bssid, rssi |-> good[i].rssi,
              channel |-> good[i].channel, is_ibss |-> good[i].ibss,
              noise |-> good[i].noise, country_code |-> good[i].countryCode ] ]

\* n sleeps, each of the call's retry_delay
SleptConstant(n) ==
    /\ Len(sleepLog) = n
    /\ \A i \in 1..Len(sleepLog) : sleepLog[i] = retry_delay

\* the first n loop scans reported an error and scan n+1 came back error-free
\* with at least one raw entry
ErrorsThenResult(n) ==
    /\ InLoopCall
    /\ Len(hist) >= n + 1
    /\ \A i \in 1..n : hist[i] \in ErrorKinds
    /\ hist[n + 1] = "nonempty"

(* ------------------------------- C1 ------------------------------------ *)
\* C1 as stated: a scan_networks call made while the OS permission state is
\* Denied or Restricted returns an empty list and the radio is not scanned
\* at all during the call.
C1_DeniedNeverScans ==
    (InCall /\ lastCheck.os \in Refused)
        => (pc = "returned" /\ ret = << >> /\ CallScans = 0)

\* C1 amended: a scan_networks call made while the OS permission state is
\* Denied or Restricted, with the gate not latched, whose gate probe reports
\* an error or raises, returns an empty list without entering the retry
\* loop: the probe is the only radio scan of the call.
C1_DeniedProbeFails ==
    (InCall /\ lastCheck.os \in Refused /\ lastCheck.probe \in { "error", "raise" })
        => /\ pc = "returned"
           /\ ~lastCheck.result
           /\ ret = << >>
           /\ hist = << >>
           /\ sleepLog = << >>
           /\ CallScans = 1

C1_Witness ==
    /\ pc = "returned"
    /\ lastCheck.by = "scan_networks"
    /\ lastCheck.os = kCLAuthorizationStatusDenied
    /\ lastCheck.probe = "error"
    /\ ret = << >>

(* ------------------------------- C2 ------------------------------------ *)
\* C2 as stated: for every N, N reported errors followed by an error-free
\* non-empty result on attempt N+1 make scan_networks return the records of
\* attempt N+1 after exactly N+1 radio scans and N sleeps of retry_delay.
C2_ErrorsThenSuccess ==
    \A n \in 0..(MaxAttempts - 1) :
        ErrorsThenResult(n)
            => /\ pc = "returned"
               /\ Len(hist) = n + 1
               /\ ret = RecordsOf(networks)
               /\ CallScans = n + 1
               /\ SleptConstant(n)

\* C2 amended: for every N, N reported errors followed on attempt N+1 by an
\* error-free non-empty result all of whose entries extract make
\* scan_networks return exactly the records of attempt N+1; the retry loop
\* scanned the radio exactly N+1 times, the gate check added one probe scan
\* iff the gate was not latched at the call, and there were exactly N sleeps,
\* each of retry_delay, one before every attempt but the first.
C2_ErrorsThenCleanSuccess ==
    \A n \in 0..(MaxAttempts - 1) :
        (ErrorsThenResult(n) /\ Len(hist) = n + 1
                             /\ networks # << >> /\ AllExtract(networks))
            => /\ pc = "returned"
               /\ attempt = n + 1
               /\ ret = RecordsOf(networks)
               /\ Len(ret) = Len(networks)
               /\ CallScans = n + 1 + ProbeScans
               /\ SleptConstant(n)

C2_Witness ==
    /\ pc = "returned"
    /\ lastCheck.probe = "ok"
    /\ retry_delay = 1
    /\ hist = << "busy", "nonempty" >>
    /\ AllExtract(networks)
    /\ Len(ret) = 2
    /\ sleepLog = << 1 >>

(* ------------------------------- C3 ------------------------------------ *)
\* C3: while every attempt of a call that passed the gate has come back
\* error-free and empty, the call has not returned and is on its way to a
\* further attempt, however many attempts were made; it has slept once per
\* finished round, always for retry_delay, and the attempt counter is one
\* ahead of the sleeps.
C3_EmptyRetriesForever ==
    (InLoopCall /\ hist # << >> /\ \A i \in 1..Len(hist) : hist[i] = "empty")
        => /\ pc \in { "sleep", "attempt" }
           /\ ret = << >>
           /\ SleptConstant(IF pc = "sleep" THEN Len(hist) - 1 ELSE Len(hist))
           /\ attempt = Len(sleepLog) + 1

C3_Witness ==
    /\ InLoopCall
    /\ pc = "sleep"
    /\ hist = << "empty", "empty" >>
    /\ sleepLog = << retry_delay >>
    /\ attempt = 2

(* ------------------------------- C4 ------------------------------------ *)
\* C4: an error-free attempt whose raw result holds entries that fail in
\* extraction and at least one entry that extracts ends the call at once:
\* scan_networks returns the extracting entries in their raw order, and no
\* sleep or further attempt follows from the failing entries.
C4_FailingEntriesSkipped ==
    ( /\ InLoopCall
      /\ pc \in { "sleep", "returned" }
      /\ hist # << >>
      /\ hist[Len(hist)] = "nonempty"
      /\ \E i \in 1..Len(networks) : ~Extracts(networks[i])
      /\ \E i \in 1..Len(networks) : Extracts(networks[i]) )
        => /\ pc = "returned"
           /\ ret = RecordsOf(networks)
           /\ Len(sleepLog) = Len(hist) - 1

(* ------------------------------- C5 ------------------------------------ *)
\* C5: a gate query made while the OS permission state is authorized (when
\* in use, or always) returns true, whatever the radio answers; so a
\* scan_networks call made then is let into the retry loop.
C5_AuthorizedPassesGate ==
    (lastCheck.by # "none" /\ lastCheck.os \in Authorized) => lastCheck.result

(* ------------------------------- C6 ------------------------------------ *)
\* C6: when a permission request is pending and the callback delivers
\* Granted, Denied or Restricted, the gate's authorization state takes the
\* delivered value: authorized after Granted, not authorized after Denied or
\* Restricted, with no scan in between.
C6_CallbackSetsGate ==
    [][ \A status \in AuthStatuses \ { kCLAuthorizationStatusNotDetermined } :
          ( /\ requests > 0
            /\ osStatus = kCLAuthorizationStatusNotDetermined
            /\ locationManager_didChangeAuthorizationStatus_(status) )
              => (has_auth' = (status \in Authorized)) ]_vars

(* ------------------------------- C7 ------------------------------------ *)
\* C7: once _has_auth is set it stays set in every later state, whatever
\* scan outcomes and permission callbacks follow.
C7_LatchSticky == [][ has_auth => has_auth' ]_vars

C7_Witness ==
    /\ has_auth
    /\ auth_event
    /\ osStatus = kCLAuthorizationStatusDenied
    /\ pc = "sleep"
    /\ hist = << "raise", "error" >>

(* ------------------------------- C8 ------------------------------------ *)
\* C8: an error-free attempt with at least one raw entry, all of whose
\* entries extract, ends the call, and the list returned has the length of
\* the raw result with the i-th record carrying the seven fields of the i-th
\* raw entry: nothing is reordered, and entries with equal BSSID or SSID are
\* all kept.
C8_VerbatimInOrder ==
    ( /\ InLoopCall
      /\ pc \in { "sleep", "returned" }
      /\ hist # << >>
      /\ hist[Len(hist)] = "nonempty"
      /\ AllExtract(networks) )
        => /\ pc = "returned"
           /\ Len(ret) = Len(networks)
           /\ \A i \in 1..Len(networks) :
                /\ ret[i].ssid = networks[i].ssid
                /\ ret[i].bssid = networks[i].bssid
                /\ ret[i].rssi = networks[i].rssi
                /\ ret[i].channel = networks[i].channel
                /\ ret[i].is_ibss = networks[i].ibss
                /\ ret[i].noise = networks[i].noise
                /\ ret[i].country_code = networks[i].countryCode

C8_Witness ==
    /\ pc = "returned"
    /\ Len(networks) = MaxNets
    /\ AllExtract(networks)
    /\ Len(ret) = MaxNets
    /\ ret[1].ssid = "Home"
    /\ ret[2].ssid = "CafeWiFi"
    /\ ret[1].bssid = ret[2].bssid

(* ------------------------------- C9 ------------------------------------ *)
\* C9: every step that issues a permission request is the first such step,
\* is taken by the constructor, and is taken while the OS permission state
\* reads not-determined; so there is at most one request per scanner and no
\* gate query, scan call or callback issues one.
C9_RequestOnceWhenUndetermined ==
    [][ requests' # requests
          => /\ requests = 0
             /\ requests' = 1
             /\ pc = "new"
             /\ osStatus = kCLAuthorizationStatusNotDetermined ]_vars

C9_Witness ==
    /\ requests = 1
    /\ pc = "returned"
    /\ lastCheck.os = kCLAuthorizationStatusNotDetermined
    /\ auth_event
    /\ osStatus = kCLAuthorizationStatusDenied

(* ------------------------------- C10 ----------------------------------- *)
\* C10: after construction was tried, it has failed iff there is no radio
\* interface, and then no scan was made and no permission request issued;
\* with an interface it completed, whatever the probe scan did and whatever
\* the OS permission state was.
C10_FailsIffNoInterface ==
    pc # "new"
        => /\ (pc = "failed") <=> ~interface
           /\ pc = "failed" => (initProbe = "none" /\ requests = 0 /\ ~has_auth)
           /\ interface => initProbe \in ProbeOutcomes

C10_Witness ==
    /\ pc = "failed"
    /\ ~interface
    /\ initProbe = "none"
    /\ requests = 0

(* ------------------------------- C11 ----------------------------------- *)
\* C11: a gate query always comes back with a boolean, whatever its probe
\* scan did (clean, reported error, raised), and hands control back to its
\* caller; when the probe reported an error or raised, the query returned
\* false and _has_auth is as it was on entry, unset.
C11_GateQueryNeverRaises ==
    lastCheck.by # "none"
        => /\ lastCheck.result \in BOOLEAN
           /\ lastCheck.probe \in { "error", "raise" }
                => (~lastCheck.result /\ has_auth = lastCheck.latched /\ ~has_auth)
           /\ lastCheck.probe = "ok" => (lastCheck.result /\ has_auth)
           /\ lastCheck.by = "check_location_auth" => pc = "ready"

C11_Witness ==
    /\ lastCheck.by = "check_location_auth"
    /\ lastCheck.probe = "raise"
    /\ ~lastCheck.result
    /\ ~has_auth
    /\ pc = "ready"

(* ------------------------------- C12 ----------------------------------- *)
\* C12: get_preferred_networks hands control back with an empty list when
\* the interface has no configuration or the saved-profile collection is
\* absent or empty; otherwise it returns one record per profile that
\* extracts, in the order of the collection, every failing profile left out.
C12_PreferredSkipsAndKeepsOrder ==
    preferred.called
        => LET o == preferred.input
               good == IF o.kind = "ok"
                       THEN SelectSeq(o.preferred, LAMBDA n : n.fails = "none")
                       ELSE << >>
           IN  /\ pc = "ready"
               /\ o.kind \in { "no_config", "no_preferred" } => preferred.ret = << >>
               /\ (o.kind = "ok" /\ o.preferred = << >>) => preferred.ret = << >>
               /\ o.kind = "ok"
                    => /\ Len(preferred.ret) = Len(good)
                       /\ \A i \in 1..Len(good) :
                            /\ preferred.ret[i].ssid = good[i].ssid
                            /\ preferred.ret[i].is_auto_join = good[i].autoJoin
                            /\ preferred.ret[i].last_connected = good[i].lastConnected
                            /\ preferred.ret[i].security_mode
                                 = GetSecurityString(good[i].security)

C12_Witness ==
    /\ preferred.called
    /\ preferred.input.kind = "ok"
    /\ Len(preferred.input.preferred) = MaxProfiles
    /\ preferred.input.preferred[1].fails = "ssid"
    /\ Len(preferred.ret) = MaxProfiles - 1
    /\ preferred.ret[1].security_mode = "Unknown (13)"

(* ------------------------------- C13 ----------------------------------- *)
\* C13: _get_security_string answers every mode: modes 0..12 get the label
\* of the table, none of them of the form "Unknown (...)", and two
\* different modes of 0..12 get different labels; every other mode m gets
\* exactly "Unknown (m)".
C13_SecurityLabelTotal ==
    LET table == << "None", "WEP", "WPA Personal", "WPA/WPA2 Personal",
                    "WPA2 Personal", "WPA2/WPA3 Personal", "WPA3 Personal",
                    "Dynamic WEP", "WPA Enterprise", "WPA/WPA2 Enterprise",
                    "WPA2 Enterprise", "WPA2/WPA3 Enterprise", "WPA3 Enterprise" >>
        UnknownForm(l) == Len(l) >= 9 /\ SubSeq(l, 1, 9) = "Unknown ("
    IN  /\ \A i \in 1..Len(labelLog) :
             LET m == labelLog[i].security_mode
                 l == labelLog[i].label
             IN  IF m \in 0..12
                 THEN l = table[m + 1] /\ ~UnknownForm(l)
                 ELSE /\ l = "Unknown (" \o ToString(m) \o ")"
                      /\ UnknownForm(l)
        /\ \A i, j \in 1..Len(labelLog) :
             ( /\ labelLog[i].security_mode \in 0..12
               /\ labelLog[j].security_mode \in 0..12
               /\ labelLog[i].security_mode # labelLog[j].security_mode )
                 => labelLog[i].label # labelLog[j].label

C13_Witness ==
    /\ Len(labelLog) = 2
    /\ labelLog[1] = [ security_mode |-> 12, label |-> "WPA3 Enterprise" ]
    /\ labelLog[2] = [ security_mode |-> -1, label |-> "Unknown (-1)" ]

(* ------------------------------- C14 ----------------------------------- *)
\* C14: the gate is consulted at the entry of scan_networks and not again:
\* no step taken inside the retry loop changes the record of the gate query
\* or _has_auth; a permission callback delivered inside the loop, whatever
\* status it carries, leaves the call where it was, still retrying; and the
\* only way out of the loop is a return with at least one record.
C14_GateOnceThenLoop ==
    [][ (pc \in { "attempt", "sleep" })
          => ( /\ lastCheck' = lastCheck
               /\ has_auth' = has_auth
               /\ pc' \in { "attempt", "sleep", "returned" }
               /\ (pc' = "returned") => (ret' # << >>)
               /\ (osStatus' # osStatus \/ auth_event' # auth_event)
                    => (UNCHANGED << pc, callVars >>) ) ]_vars

C14_Witness ==
    /\ pc = "attempt"
    /\ attempt = 2
    /\ Len(hist) = 1
    /\ lastCheck.by = "scan_networks"
    /\ lastCheck.os = kCLAuthorizationStatusAuthorizedAlways
    /\ osStatus = kCLAuthorizationStatusDenied

(* ------------------------------- C15 ----------------------------------- *)
\* C15: after a retry-loop scan that reported an error, (POSIX, 16) or any
\* other pair alike, the call has not returned and has raised nothing: it
\* is at the sleep of retry_delay or, the attempt counter incremented, at
\* the next attempt.
C15_EveryErrorRetried ==
    (InLoopCall /\ hist # << >> /\ hist[Len(hist)] \in ErrorKinds)
        => /\ pc \in { "sleep", "attempt" }
           /\ ret = << >>
           /\ networks = << >>
           /\ SleptConstant(IF pc = "sleep" THEN Len(hist) - 1 ELSE Len(hist))
           /\ attempt = Len(sleepLog) + 1

C15_Witness ==
    /\ InLoopCall
    /\ pc = "sleep"
    /\ hist = << "busy", "error" >>
    /\ sleepLog = << retry_delay >>

(* ------------------------------- C16 ----------------------------------- *)
\* C16: the first retry-loop scan that comes back error-free with at least
\* one entry that extracts ends the call: scan_networks returns from that
\* attempt and makes no further one.
C16_ReturnsOnFirstGoodResult ==
    ( /\ InLoopCall
      /\ pc \in { "sleep", "returned" }
      /\ hist # << >>
      /\ hist[Len(hist)] = "nonempty"
      /\ \E i \in 1..Len(networks) : Extracts(networks[i]) )
        => pc = "returned"

(* ------------------------------- C17 ----------------------------------- *)
\* C17: a returned scan_networks call has an empty list iff its gate check
\* failed; an error-free attempt from which no record was extracted (empty
\* scan, or no entry that extracts) does not return but goes to the sleep,
\* and every further attempt has a sleep before it.
C17_EmptyIffGateFailed ==
    /\ pc = "returned" => ((ret = << >>) <=> ~lastCheck.result)
    /\ ( /\ InLoopCall
         /\ pc \in { "sleep", "returned" }
         /\ hist # << >>
         /\ hist[Len(hist)] \in { "empty", "nonempty" }
         /\ RecordsOf(networks) = << >> )
           => (pc = "sleep" /\ ret = << >>)
    /\ (InLoopCall /\ pc = "attempt") => Len(sleepLog) = Len(hist)

C17_Witness ==
    /\ InLoopCall
    /\ pc = "sleep"
    /\ hist = << "empty", "nonempty" >>
    /\ Len(networks) = MaxNets
    /\ \A i \in 1..Len(networks) : networks[i].fails = "countryCode"

(* ------------------------------- C18 ----------------------------------- *)
\* C18: a gate query scans the radio exactly once, without SSID filter, when
\* _has_auth is unset on entry and not at all when it is set; so the radio
\* scans of a scan_networks call are its retry-loop attempts, plus one iff
\* the gate was not latched when the call was made.
C18_ProbeOnceIffUnlatched ==
    lastCheck.by # "none"
        => /\ lastCheck.scans = IF lastCheck.latched THEN << >> ELSE << "None" >>
           /\ InCall => CallScans = Len(hist) + (IF lastCheck.latched THEN 0 ELSE 1)

C18_Witness ==
    /\ pc = "returned"
    /\ ~lastCheck.latched
    /\ lastCheck.scans = << "None" >>
    /\ ssid_data = "CafeWiFi"
    /\ Len(hist) = 2
    /\ CallScans = 3

(* ------------------------------- C19 ----------------------------------- *)
\* C19: after a retry-loop scan in which the radio scan primitive raised,
\* the call has not returned, neither with an empty list nor by an
\* exception: it is at the sleep of retry_delay or, the attempt counter
\* incremented, at the next attempt.
C19_RaiseRetried ==
    (InLoopCall /\ hist # << >> /\ hist[Len(hist)] = "raise")
        => /\ pc \in { "sleep", "attempt" }
           /\ ret = << >>
           /\ SleptConstant(IF pc = "sleep" THEN Len(hist) - 1 ELSE Len(hist))
           /\ attempt = Len(sleepLog) + 1

C19_Witness ==
    /\ InLoopCall
    /\ pc = "attempt"
    /\ hist = << "raise" >>
    /\ attempt = 2
    /\ sleepLog = << retry_delay >>

====
